---- MODULE Spec2Model ----
(***************************************************************************)
(* The canvas/session controller of the visual component-layout designer   *)
(* (class AudioPluginApp) together with the component factory it calls     *)
(* (class ComponentFactory).  Lengths are in canvas pixels.                *)
(***************************************************************************)
EXTENDS Integers, Sequences, FiniteSets, TLC

VARIABLES
    components,         \* this.components, a Map kept in insertion order
    selectedComponent,  \* this.selectedComponent, an id or null
    guiProperties,      \* this.guiProperties
    isDragging,         \* this.isDragging
    dragOffset,         \* this.dragOffset
    lastEvent,          \* history: the event handled last, and its outcome
    events,             \* history: the number of events handled
    call,               \* a call of a static helper: arguments and result
    exportOutput,       \* the value of the textarea exportOutput
    window,             \* the exporters loaded into the page (window.*)
    gesture,            \* history: the press, moves and release in progress
    horizon             \* history: the number of events this run handles

vars == <<components, selectedComponent, guiProperties, isDragging, dragOffset,
          lastEvent, events, call, exportOutput, window, gesture, horizon>>

(***************************************************************************)
(* Bounds of the model and inputs of the events.                           *)
(***************************************************************************)

\* Number of events a run of the session handles.
MaxEvents == 3

\* The generated id strings, numbered; a run never needs more than one per
\* event.
Ids == 1..MaxEvents

\* this.selectedComponent = null
NullId == 0

\* Pointer positions of mouse and drop events, as clientX - rect.left and
\* clientY - rect.top: left of / above the canvas, inside it, beyond it.
PointerXs == {-30, 30, 430}

PointerYs == {-20, 10, 70, 330}

\* Pointer positions <<clientX - rect.left, clientY - rect.top>> of the drop
\* events: beyond the top left corner, inside, beyond the bottom right corner.
DropPoints == {<<-30, -20>>, <<30, 10>>, <<430, 330>>}

\* Values of Math.random(), as fractions <<numerator, denominator>> in [0, 1).
RandomValues == {<<0, 1>>, <<2, 3>>}

\* dataset.type of the toolbox items and the text/plain payload of a drop;
\* "widget" is a kind the factory does not know.
ToolboxTypes == {"knob", "widget"}

\* The payload of a drop that carries no kind tag.
NoPayload == ""

\* Results of parseInt on the canvasWidth and canvasHeight inputs.
NaN == [isNaN |-> TRUE, n |-> 0]

Num(v) == [isNaN |-> FALSE, n |-> v]

WidthInputs == {NaN} \cup {Num(v) : v \in {0, 150, 200}}

HeightInputs == {NaN} \cup {Num(v) : v \in {100, 150}}

\* Values of the backgroundColor input
BackgroundColors == {"#DDDDDD", "#202020"}

\* e.key of the keydown events
KeyInputs == {"Delete", "n"}

\* The values of the radio buttons exportFormat
ExportFormats == {"juce", "json", "xml"}

\* The exporter scripts the page has loaded: none, or both.
WindowInputs == {{}, {"JUCECodeGenerator", "FileManager"}}

\* No pointer position, and no gesture: no press has begun a drag yet.
NoPointer == << >>

NoGesture == [target |-> NullId, pointer |-> NoPointer, phase |-> "idle"]

\* No static helper is being called (the state of a session).
NoCall == [fn |-> "none", args |-> << >>, returned |-> FALSE, result |-> << >>]

(***************************************************************************)
(* Program constants.                                                      *)
(***************************************************************************)
DefaultWidth == 400

DefaultHeight == 300

MinCanvasWidth == 200

MinCanvasHeight == 150

ZoomLevel == 1

DropMarginX == 50

DropMarginY == 30

RandomMarginX == 100

RandomMarginY == 50

DefaultGuiProperties ==
    [width |-> DefaultWidth, height |-> DefaultHeight,
     backgroundColor |-> "#DDDDDD", pluginName |-> "My Audio Plugin",
     pluginManufacturer |-> "MyCompany"]

(***************************************************************************)
(* Numeric helpers.                                                        *)
(***************************************************************************)
Max(a, b) == IF a >= b THEN a ELSE b

Min(a, b) == IF a <= b THEN a ELSE b

\* Math.round of the fraction f = <<n, d>>, d > 0: the nearest integer, halves
\* rounded up.
MathRound(f) == (2 * f[1] + f[2]) \div (2 * f[2])

\* (e.clientX - rect.left) / this.zoomLevel
CanvasLocal(d) == d \div ZoomLevel

(***************************************************************************)
(* JavaScript numbers as normalizeValue sees them: NaN, an infinity (n is  *)
(* its sign) or the finite fraction n / d in lowest terms with d > 0.      *)
(* Finite arithmetic is exact: the rounding and the overflow of doubles    *)
(* are left out, and a zero carries no sign.                               *)
(***************************************************************************)
NotANumber == [k |-> "NaN", n |-> 0, d |-> 1]

Infinity(sign) == [k |-> "Infinity", n |-> sign, d |-> 1]

Abs(a) == IF a < 0 THEN -a ELSE a

Sign(a) == IF a < 0 THEN -1 ELSE IF a > 0 THEN 1 ELSE 0

RECURSIVE Gcd(_, _)
Gcd(a, b) == IF b = 0 THEN a ELSE Gcd(b, a % b)

\* The finite number n / d, d > 0
Fraction(n, d) ==
    LET g == Gcd(Abs(n), d)
    IN  [k |-> "finite", n |-> n \div g, d |-> d \div g]

Zero == Fraction(0, 1)

One == Fraction(1, 1)

\* Number.isFinite(a)
NumberIsFinite(a) == a.k = "finite"

\* a - b
Subtract(a, b) ==
    IF a.k = "NaN" \/ b.k = "NaN" THEN NotANumber
    ELSE IF a.k = "Infinity" /\ b.k = "Infinity"
         THEN IF a.n = b.n THEN NotANumber ELSE a
    ELSE IF a.k = "Infinity" THEN a
    ELSE IF b.k = "Infinity" THEN Infinity(-b.n)
    ELSE Fraction(a.n * b.d - b.n * a.d, a.d * b.d)

\* a / b
Divide(a, b) ==
    IF a.k = "NaN" \/ b.k = "NaN" THEN NotANumber
    ELSE IF b.k = "Infinity"
         THEN IF a.k = "Infinity" THEN NotANumber ELSE Zero
    ELSE IF b.n = 0
         THEN IF a.n = 0 THEN NotANumber ELSE Infinity(Sign(a.n))
    ELSE IF a.k = "Infinity" THEN Infinity(a.n * Sign(b.n))
    ELSE Fraction(a.n * b.d * Sign(b.n), a.d * Abs(b.n))

\* a < b: a comparison with NaN is false
Less(a, b) ==
    /\ a.k # "NaN" /\ b.k # "NaN"
    /\ IF a.k = "Infinity" THEN a.n < 0 /\ b # a
       ELSE IF b.k = "Infinity" THEN b.n > 0
       ELSE a.n * b.d < b.n * a.d

\* a <= b
LessEq(a, b) == Less(a, b) \/ (a.k # "NaN" /\ a = b)

\* Math.max(a, b) and Math.min(a, b): NaN if either argument is NaN
MathMax(a, b) ==
    IF a.k = "NaN" \/ b.k = "NaN" THEN NotANumber
    ELSE IF Less(a, b) THEN b ELSE a

MathMin(a, b) ==
    IF a.k = "NaN" \/ b.k = "NaN" THEN NotANumber
    ELSE IF Less(b, a) THEN b ELSE a

\* Faulty variant of NormalizeValue: only the finiteness of the range is
\* tested, not its sign.
NormalizeValueFiniteRangeOnly(value, min, max) ==
    LET range == Subtract(max, min)
    IN  IF ~NumberIsFinite(range) THEN Zero
        ELSE LET normalized == Divide(Subtract(value, min), range)
             IN  IF ~NumberIsFinite(normalized) THEN Zero
                 ELSE MathMin(MathMax(normalized, Zero), One)

\* Faulty variant of NormalizeValue: the ratio is returned unclamped.
NormalizeValueUnclamped(value, min, max) ==
    LET range == Subtract(max, min)
    IN  IF ~NumberIsFinite(range) \/ LessEq(range, Zero) THEN Zero
        ELSE LET normalized == Divide(Subtract(value, min), range)
             IN  IF ~NumberIsFinite(normalized) THEN Zero
                 ELSE normalized

\* ComponentRenderer.normalizeValue(value, min, max)
NormalizeValue(value, min, max) ==
    LET range == Subtract(max, min)
    IN  IF ~NumberIsFinite(range) \/ LessEq(range, Zero) THEN Zero
        ELSE LET normalized == Divide(Subtract(value, min), range)
             IN  IF ~NumberIsFinite(normalized) THEN Zero
                 ELSE MathMin(MathMax(normalized, Zero), One)

(***************************************************************************)
(* Component model and factory.  minValue, maxValue, defaultValue and      *)
(* level are fractions <<numerator, denominator>>.                         *)
(***************************************************************************)

\* class Component: the fields every descriptor carries, with their defaults.
Component(id, type, x, y, width, height) ==
    [id |-> id, type |-> type, x |-> x, y |-> y,
     width |-> width, height |-> height,
     text |-> type, color |-> "#CCCCCC", textColor |-> "#000000",
     fontSize |-> 12,
     minValue |-> <<0, 1>>, maxValue |-> <<1, 1>>, defaultValue |-> <<1, 2>>,
     visible |-> TRUE, enabled |-> TRUE]

\* f with the fields of g added or overwritten (a subclass constructor's
\* assignments after super(...)).
Assign(f, g) ==
    [k \in DOMAIN f \cup DOMAIN g |-> IF k \in DOMAIN g THEN g[k] ELSE f[k]]

HorizontalSlider(id, x, y) ==
    Assign(Component(id, "horizontalslider", x, y, 120, 20),
           [text |-> "Slider", color |-> "#E9ECEF",
            sliderColor |-> "#0078D4", thumbColor |-> "#FFFFFF"])

VerticalSlider(id, x, y) ==
    Assign(Component(id, "verticalslider", x, y, 20, 120),
           [text |-> "Slider", color |-> "#E9ECEF",
            sliderColor |-> "#0078D4", thumbColor |-> "#FFFFFF"])

Knob(id, x, y) ==
    Assign(Component(id, "knob", x, y, 60, 60),
           [text |-> "Knob", color |-> "#F8F9FA",
            knobColor |-> "#0078D4", pointerColor |-> "#0078D4"])

Button(id, x, y) ==
    Assign(Component(id, "button", x, y, 80, 30),
           [text |-> "Button", color |-> "#28A745", textColor |-> "#FFFFFF",
            pressed |-> FALSE])

Toggle(id, x, y) ==
    Assign(Component(id, "toggle", x, y, 50, 25),
           [text |-> "Toggle", color |-> "#6C757D",
            toggledColor |-> "#28A745", toggled |-> FALSE])

Label(id, x, y) ==
    Assign(Component(id, "label", x, y, 80, 20),
           [text |-> "Label", color |-> "transparent",
            borderColor |-> "#DEE2E6", alignment |-> "center"])

TextBox(id, x, y) ==
    Assign(Component(id, "textbox", x, y, 100, 25),
           [text |-> "Text", color |-> "#FFFFFF", borderColor |-> "#0078D4",
            placeholder |-> "Enter text..."])

Meter(id, x, y) ==
    Assign(Component(id, "meter", x, y, 20, 100),
           [text |-> "Meter", color |-> "#333333", meterColor |-> "#44FF44",
            peakColor |-> "#FF4444", level |-> <<7, 10>>])

ComboBox(id, x, y) ==
    Assign(Component(id, "combobox", x, y, 120, 25),
           [text |-> "ComboBox", color |-> "#FFFFFF",
            borderColor |-> "#0078D4",
            options |-> <<"Option 1", "Option 2", "Option 3">>,
            selectedIndex |-> 0])

\* Faulty variant of CreateComponent: an unknown type yields a button.
CreateComponentUnknownAsButton(type, id, x, y) ==
    CASE type = "horizontalslider" -> HorizontalSlider(id, x, y)
      [] type = "verticalslider" -> VerticalSlider(id, x, y)
      [] type = "knob" -> Knob(id, x, y)
      [] type = "button" -> Button(id, x, y)
      [] type = "toggle" -> Toggle(id, x, y)
      [] type = "label" -> Label(id, x, y)
      [] type = "textbox" -> TextBox(id, x, y)
      [] type = "meter" -> Meter(id, x, y)
      [] type = "combobox" -> ComboBox(id, x, y)
      [] OTHER -> Button(id, x, y)

\* ComponentFactory.createComponent
CreateComponent(type, id, x, y) ==
    CASE type = "horizontalslider" -> HorizontalSlider(id, x, y)
      [] type = "verticalslider" -> VerticalSlider(id, x, y)
      [] type = "knob" -> Knob(id, x, y)
      [] type = "button" -> Button(id, x, y)
      [] type = "toggle" -> Toggle(id, x, y)
      [] type = "label" -> Label(id, x, y)
      [] type = "textbox" -> TextBox(id, x, y)
      [] type = "meter" -> Meter(id, x, y)
      [] type = "combobox" -> ComboBox(id, x, y)
      [] OTHER -> Component(id, type, x, y, 80, 30)

\* Faulty variant of GetDefaultSize: the meter's width and height are swapped.
GetDefaultSizeMeterSwapped(type) ==
    CASE type = "horizontalslider" -> [width |-> 120, height |-> 20]
      [] type = "verticalslider" -> [width |-> 20, height |-> 120]
      [] type = "knob" -> [width |-> 60, height |-> 60]
      [] type = "button" -> [width |-> 80, height |-> 30]
      [] type = "toggle" -> [width |-> 50, height |-> 25]
      [] type = "label" -> [width |-> 80, height |-> 20]
      [] type = "textbox" -> [width |-> 100, height |-> 25]
      [] type = "meter" -> [width |-> 100, height |-> 20]
      [] type = "combobox" -> [width |-> 120, height |-> 25]
      [] OTHER -> [width |-> 80, height |-> 30]

\* ComponentFactory.getDefaultSize
GetDefaultSize(type) ==
    CASE type = "horizontalslider" -> [width |-> 120, height |-> 20]
      [] type = "verticalslider" -> [width |-> 20, height |-> 120]
      [] type = "knob" -> [width |-> 60, height |-> 60]
      [] type = "button" -> [width |-> 80, height |-> 30]
      [] type = "toggle" -> [width |-> 50, height |-> 25]
      [] type = "label" -> [width |-> 80, height |-> 20]
      [] type = "textbox" -> [width |-> 100, height |-> 25]
      [] type = "meter" -> [width |-> 20, height |-> 100]
      [] type = "combobox" -> [width |-> 120, height |-> 25]
      [] OTHER -> [width |-> 80, height |-> 30]

(***************************************************************************)
(* ComponentRenderer: a rendering is the sequence of the calls it makes on *)
(* the 2D context, each with the method that issues it.  Assignments to    *)
(* the context's properties, coordinates and colours are left out, but for *)
(* the knob's pointer, which carries the normalized value it is drawn at.  *)
(***************************************************************************)
Ctx(op, by) == [op |-> op, by |-> by]

\* A field <<numerator, denominator>> of a descriptor as a number
ToNumber(f) == Fraction(f[1], f[2])

\* A falsy string (if (!comp.text), comp.text && ...)
Falsy(text) == text = ""

RenderHorizontalSlider(comp) ==
    <<Ctx("fillRect", "renderHorizontalSlider"),
      Ctx("fillRect", "renderHorizontalSlider"),
      Ctx("strokeRect", "renderHorizontalSlider")>>

RenderVerticalSlider(comp) ==
    <<Ctx("fillRect", "renderVerticalSlider"),
      Ctx("fillRect", "renderVerticalSlider"),
      Ctx("strokeRect", "renderVerticalSlider")>>

\* Faulty variant of RenderKnob: value and min are passed in each other's
\* place.
RenderKnobSwappedArguments(comp) ==
    LET norm == NormalizeValue(ToNumber(comp.minValue),
                               ToNumber(comp.defaultValue), ToNumber(comp.maxValue))
    IN  <<Ctx("beginPath", "renderKnob"), Ctx("arc", "renderKnob"),
          Ctx("fill", "renderKnob"), Ctx("stroke", "renderKnob"),
          Ctx("beginPath", "renderKnob"), Ctx("moveTo", "renderKnob"),
          [op |-> "lineTo", by |-> "renderKnob", norm |-> norm],
          Ctx("stroke", "renderKnob")>>

RenderKnob(comp) ==
    LET norm == NormalizeValue(ToNumber(comp.defaultValue),
                               ToNumber(comp.minValue), ToNumber(comp.maxValue))
    IN  <<Ctx("beginPath", "renderKnob"), Ctx("arc", "renderKnob"),
          Ctx("fill", "renderKnob"), Ctx("stroke", "renderKnob"),
          Ctx("beginPath", "renderKnob"), Ctx("moveTo", "renderKnob"),
          [op |-> "lineTo", by |-> "renderKnob", norm |-> norm],
          Ctx("stroke", "renderKnob")>>

RenderButton(comp) ==
    <<Ctx("fillRect", "renderButton"), Ctx("strokeRect", "renderButton"),
      Ctx("fillText", "renderButton")>>

RenderToggle(comp) ==
    <<Ctx("beginPath", "renderToggle"), Ctx("roundRect", "renderToggle"),
      Ctx("fill", "renderToggle"), Ctx("beginPath", "renderToggle"),
      Ctx("arc", "renderToggle"), Ctx("fill", "renderToggle")>>

RenderLabel(comp) ==
    (IF comp.color = "transparent"
     THEN <<Ctx("setLineDash", "renderLabel"), Ctx("strokeRect", "renderLabel"),
            Ctx("setLineDash", "renderLabel")>>
     ELSE <<Ctx("fillRect", "renderLabel")>>)
    \o <<Ctx("fillText", "renderLabel")>>

\* now is Date.now(): the caret is drawn in the first half of each second.
RenderTextBox(comp, now) ==
    <<Ctx("fillRect", "renderTextBox"), Ctx("strokeRect", "renderTextBox"),
      Ctx("fillText", "renderTextBox")>>
    \o (IF now % 1000 < 500
        THEN <<Ctx("beginPath", "renderTextBox"),
               Ctx("measureText", "renderTextBox"),
               Ctx("moveTo", "renderTextBox"),
               Ctx("measureText", "renderTextBox"),
               Ctx("lineTo", "renderTextBox"), Ctx("stroke", "renderTextBox")>>
        ELSE << >>)

RenderMeter(comp) ==
    <<Ctx("fillRect", "renderMeter"),
      Ctx("createLinearGradient", "renderMeter"),
      Ctx("fillRect", "renderMeter"), Ctx("strokeRect", "renderMeter")>>

RenderComboBox(comp) ==
    <<Ctx("fillRect", "renderComboBox"), Ctx("strokeRect", "renderComboBox"),
      Ctx("fillText", "renderComboBox"), Ctx("fillText", "renderComboBox")>>

RenderDefault(comp) ==
    <<Ctx("fillRect", "renderDefault"), Ctx("strokeRect", "renderDefault"),
      Ctx("fillText", "renderDefault")>>

\* The outline, then the four handles
RenderSelection(comp) ==
    <<Ctx("setLineDash", "renderSelection"),
      Ctx("strokeRect", "renderSelection"),
      Ctx("fillRect", "renderSelection"), Ctx("fillRect", "renderSelection"),
      Ctx("fillRect", "renderSelection"), Ctx("fillRect", "renderSelection")>>

RenderTextLabel(comp) ==
    IF Falsy(comp.text) THEN << >>
    ELSE <<Ctx("fillText", "renderTextLabel")>>

\* Faulty variant of Render: visibility is tested for the base rendering only.
RenderSelectionOfInvisible(comp, isSelected, now) ==
    <<Ctx("save", "render")>>
    \o (IF ~comp.visible THEN << >> ELSE RenderDefault(comp))
    \o (IF isSelected THEN RenderSelection(comp) ELSE << >>)
    \o <<Ctx("restore", "render")>>

\* ComponentRenderer.render(ctx, component, isSelected)
Render(component, isSelected, now) ==
    IF ~component.visible THEN << >>
    ELSE <<Ctx("save", "render")>>
         \o (CASE component.type = "horizontalslider"
                      -> RenderHorizontalSlider(component)
               [] component.type = "verticalslider"
                      -> RenderVerticalSlider(component)
               [] component.type = "knob" -> RenderKnob(component)
               [] component.type = "button" -> RenderButton(component)
               [] component.type = "toggle" -> RenderToggle(component)
               [] component.type = "label" -> RenderLabel(component)
               [] component.type = "textbox" -> RenderTextBox(component, now)
               [] component.type = "meter" -> RenderMeter(component)
               [] component.type = "combobox" -> RenderComboBox(component)
               [] OTHER -> RenderDefault(component))
         \o (IF isSelected THEN RenderSelection(component) ELSE << >>)
         \o (IF /\ ~Falsy(component.text)
                /\ component.type # "label" /\ component.type # "textbox"
             THEN RenderTextLabel(component) ELSE << >>)
         \o <<Ctx("restore", "render")>>

(***************************************************************************)
(* Frontend/componentFactory.js.  The outcome of createComponentOnCanvas   *)
(* is the canvas's children, the value returned or the fact that the call  *)
(* threw, the requests issued with fetch, and the lines on the console.    *)
(***************************************************************************)

\* createKnob(x, y): the div element
CreateKnob(x, y) ==
    [tag |-> "div", className |-> "knob-icon", position |-> "absolute",
     left |-> x, top |-> y, title |-> "Knob"]

\* createComponentOnCanvas(type, x, y, canvas), canvas the children of the
\* canvas element.  Only 'knob' creates an element; for any other type
\* canvas.appendChild(undefined) throws a TypeError, and the statements after
\* it are not reached.  value holds the returned element, if any.
CreateComponentOnCanvas(type, x, y, canvas) ==
    IF type = "knob"
    THEN [threw |-> FALSE,
          value |-> <<CreateKnob(x, y)>>,
          canvas |-> Append(canvas, CreateKnob(x, y)),
          requests |-> <<[method |-> "POST", url |-> "https://localhost:7296/api/Component/Create",
                          body |-> [type |-> type, x |-> x, y |-> y],
                          state |-> "pending"]>>,
          console |-> << >>]
    ELSE [threw |-> TRUE, value |-> << >>, canvas |-> canvas,
          requests |-> << >>, console |-> << >>]

(***************************************************************************)
(* The Map this.components, kept as the sequence of its values in          *)
(* insertion order (each value carries its key in the field id).           *)
(***************************************************************************)
Keys(m) == {m[i].id : i \in DOMAIN m}

MapHas(m, id) == id \in Keys(m)

IndexOf(m, id) == CHOOSE i \in DOMAIN m : m[i].id = id

\* Map.prototype.get, for a key that is present
MapGet(m, id) == m[IndexOf(m, id)]

\* Map.prototype.set: a present key keeps its place, a new key goes last.
MapSet(m, id, c) ==
    IF MapHas(m, id) THEN [m EXCEPT ![IndexOf(m, id)] = c] ELSE Append(m, c)

\* Faulty variant of MapDelete: removes the oldest entry, whatever the key.
MapDeleteOldest(m, id) == IF m = << >> THEN m ELSE Tail(m)

\* Map.prototype.delete
MapDelete(m, id) == SelectSeq(m, LAMBDA c : c.id # id)

\* The ids `comp_${Date.now()}_${Math.random()...}` can evaluate to when the
\* Map is m: the id of any entry (clock and random digits repeat), or an id
\* not in use; ids are opaque, so the least unused one stands for them all.
GeneratedIds(m) ==
    LET unused == Ids \ Keys(m)
    IN  Keys(m) \cup {i \in unused : \A j \in unused : i <= j}

\* x >= component.x && x <= component.x + component.width && (same for y)
Contains(c, x, y) ==
    /\ x >= c.x /\ x <= c.x + c.width
    /\ y >= c.y /\ y <= c.y + c.height

(***************************************************************************)
(* Initial state: the constructor followed by init().                      *)
(***************************************************************************)
Init ==
    /\ components = << >>
    /\ selectedComponent = NullId
    /\ guiProperties = DefaultGuiProperties
    /\ isDragging = FALSE
    /\ dragOffset = [x |-> 0, y |-> 0]
    /\ lastEvent = "init"
    /\ events = 0
    /\ call = NoCall
    /\ exportOutput = << >>
    /\ window = {}
    /\ gesture = NoGesture
    /\ horizon = MaxEvents

(***************************************************************************)
(* Operations of the controller.                                           *)
(***************************************************************************)

\* Every handler counts its event; a run handles horizon of them.
CountEvent ==
    /\ events < horizon /\ events' = events + 1
    /\ UNCHANGED <<call, exportOutput, window, horizon>>

\* The gesture the canvas listeners see, event by event: a press that begins
\* a drag, the moves that follow it, the release; any other event ends it.
\* target is the descriptor the press landed on, pointer the position
\* <<clientX - rect.left, clientY - rect.top>> of the press or of the last
\* move.
GesturePressed(dx, dy) ==
    [target |-> selectedComponent, pointer |-> <<dx, dy>>, phase |-> "pressed"]

GestureInterrupted == [gesture EXCEPT !.phase = "idle", !.pointer = NoPointer]

GestureMoved(dx, dy) ==
    IF gesture.phase = "pressed"
    THEN [gesture EXCEPT !.pointer = <<dx, dy>>]
    ELSE GestureInterrupted

GestureReleased ==
    IF gesture.phase = "pressed"
    THEN [gesture EXCEPT !.phase = "released"]
    ELSE GestureInterrupted

\* selectComponent(componentId): the status line, the properties panel and
\* the redraw are not part of the state.
SelectComponent(id) == selectedComponent' = id

\* Faulty variant of AddComponentAtPosition: the new component is not selected.
AddComponentAtPositionNoSelect(type, id, x, y) ==
    /\ components' = MapSet(components, id,
                            CreateComponent(type, id, MathRound(x), MathRound(y)))
    /\ UNCHANGED selectedComponent

\* addComponentAtPosition(type, x, y), x and y fractions; id is the generated
\* id string, which depends on the clock and on Math.random() only.
AddComponentAtPosition(type, id, x, y) ==
    /\ components' = MapSet(components, id,
                            CreateComponent(type, id, MathRound(x), MathRound(y)))
    /\ SelectComponent(id)

\* Toolbox click: onComponentSelected -> addComponent(type), which draws a
\* random position rx * (width - 100), ry * (height - 50).
OnComponentSelected(type, id, rx, ry) ==
    /\ CountEvent
    /\ lastEvent' = "toolbox"
    /\ AddComponentAtPosition(type, id,
           <<rx[1] * (guiProperties.width - RandomMarginX), rx[2]>>,
           <<ry[1] * (guiProperties.height - RandomMarginY), ry[2]>>)
    /\ gesture' = GestureInterrupted
    /\ UNCHANGED <<guiProperties, isDragging, dragOffset>>

\* Faulty variant of OnCanvasDrop: the payload is not checked.
OnCanvasDropUnchecked(type, id, dx, dy) ==
    /\ CountEvent
    /\ lastEvent' = IF type = NoPayload THEN "dropInvalid" ELSE "drop"
    /\ LET x == Max(0, Min(guiProperties.width - DropMarginX, CanvasLocal(dx)))
           y == Max(0, Min(guiProperties.height - DropMarginY, CanvasLocal(dy)))
       IN  AddComponentAtPosition(type, id, <<x, 1>>, <<y, 1>>)
    /\ gesture' = GestureInterrupted
    /\ UNCHANGED <<guiProperties, isDragging, dragOffset>>

\* onCanvasDrop
OnCanvasDrop(type, id, dx, dy) ==
    /\ CountEvent
    /\ lastEvent' = IF type = NoPayload THEN "dropInvalid" ELSE "drop"
    /\ IF type = NoPayload
       THEN UNCHANGED <<components, selectedComponent>>
       ELSE LET x == Max(0, Min(guiProperties.width - DropMarginX, CanvasLocal(dx)))
                y == Max(0, Min(guiProperties.height - DropMarginY, CanvasLocal(dy)))
            IN  AddComponentAtPosition(type, id, <<x, 1>>, <<y, 1>>)
    /\ gesture' = GestureInterrupted
    /\ UNCHANGED <<guiProperties, isDragging, dragOffset>>

\* Faulty variant of ClickedComponent: the hit test looks at the x range only.
ClickedComponentByColumn(m, x, y) ==
    LET hits == {i \in DOMAIN m : x >= m[i].x /\ x <= m[i].x + m[i].width}
    IN  IF hits = {} THEN NullId
        ELSE m[CHOOSE i \in hits : \A j \in hits : i <= j].id

\* The first entry of the Map, in insertion order, whose bounds contain the
\* point (the loop breaks at its first match); NullId when there is none.
ClickedComponent(m, x, y) ==
    LET hits == {i \in DOMAIN m : Contains(m[i], x, y)}
    IN  IF hits = {} THEN NullId
        ELSE m[CHOOSE i \in hits : \A j \in hits : i <= j].id

\* onCanvasClick
OnCanvasClick(dx, dy) ==
    /\ CountEvent
    /\ lastEvent' = "click"
    /\ LET clickedComponent ==
               ClickedComponent(components, CanvasLocal(dx), CanvasLocal(dy))
       IN  IF clickedComponent # NullId
           THEN SelectComponent(clickedComponent)
           ELSE selectedComponent' = NullId
    /\ gesture' = GestureInterrupted
    /\ UNCHANGED <<components, guiProperties, isDragging, dragOffset>>

\* Faulty variant of OnCanvasMouseDown: a press anywhere drags the selected component.
OnCanvasMouseDownAnywhere(dx, dy) ==
    /\ CountEvent
    /\ lastEvent' = "mousedown"
    /\ LET x == CanvasLocal(dx)
           y == CanvasLocal(dy)
       IN  IF selectedComponent # NullId /\ MapHas(components, selectedComponent)
           THEN LET component == MapGet(components, selectedComponent)
                IN  /\ isDragging' = TRUE
                    /\ dragOffset' = [x |-> x - component.x, y |-> y - component.y]
                    /\ gesture' = GesturePressed(dx, dy)
           ELSE /\ UNCHANGED <<isDragging, dragOffset>>
                /\ gesture' = GestureInterrupted
    /\ UNCHANGED <<components, selectedComponent, guiProperties>>

\* onCanvasMouseDown
OnCanvasMouseDown(dx, dy) ==
    /\ CountEvent
    /\ lastEvent' = "mousedown"
    /\ LET x == CanvasLocal(dx)
           y == CanvasLocal(dy)
       IN  IF /\ selectedComponent # NullId
              /\ MapHas(components, selectedComponent)
              /\ Contains(MapGet(components, selectedComponent), x, y)
           THEN LET component == MapGet(components, selectedComponent)
                IN  /\ isDragging' = TRUE
                    /\ dragOffset' = [x |-> x - component.x, y |-> y - component.y]
                    /\ gesture' = GesturePressed(dx, dy)
           ELSE /\ UNCHANGED <<isDragging, dragOffset>>
                /\ gesture' = GestureInterrupted
    /\ UNCHANGED <<components, selectedComponent, guiProperties>>

\* Faulty variant of DragPosition: the far edge is not clamped.
DragPositionNoFarEdge(pointer, offset, size, extent) == Max(0, pointer - offset)

\* The position onCanvasMouseMove gives the dragged component along one
\* axis: Math.max(0, Math.min(extent - size, pointer - offset)).
DragPosition(pointer, offset, size, extent) ==
    Max(0, Min(extent - size, pointer - offset))

\* Faulty variant of OnCanvasMouseMove: only x follows the pointer.
OnCanvasMouseMoveXOnly(dx, dy) ==
    /\ CountEvent
    /\ lastEvent' = "mousemove"
    /\ IF /\ isDragging
          /\ selectedComponent # NullId
          /\ MapHas(components, selectedComponent)
       THEN LET component == MapGet(components, selectedComponent)
                moved == [component EXCEPT
                            !.x = Max(0, Min(guiProperties.width - component.width,
                                             CanvasLocal(dx) - dragOffset.x))]
            IN  components' = MapSet(components, selectedComponent, moved)
       ELSE UNCHANGED components
    /\ gesture' = GestureMoved(dx, dy)
    /\ UNCHANGED <<selectedComponent, guiProperties, isDragging, dragOffset>>

\* Faulty variant of OnCanvasMouseMove: the selected component follows the
\* pointer whether or not a drag is in progress.
OnCanvasMouseMoveHover(dx, dy) ==
    /\ CountEvent
    /\ lastEvent' = "mousemove"
    /\ IF /\ selectedComponent # NullId
          /\ MapHas(components, selectedComponent)
       THEN LET x == CanvasLocal(dx)
                y == CanvasLocal(dy)
                component == MapGet(components, selectedComponent)
                moved == [component EXCEPT
                            !.x = DragPosition(x, dragOffset.x, component.width,
                                               guiProperties.width),
                            !.y = DragPosition(y, dragOffset.y, component.height,
                                               guiProperties.height)]
            IN  components' = MapSet(components, selectedComponent, moved)
       ELSE UNCHANGED components
    /\ gesture' = GestureMoved(dx, dy)
    /\ UNCHANGED <<selectedComponent, guiProperties, isDragging, dragOffset>>

\* onCanvasMouseMove
OnCanvasMouseMove(dx, dy) ==
    /\ CountEvent
    /\ lastEvent' = "mousemove"
    /\ IF /\ isDragging
          /\ selectedComponent # NullId
          /\ MapHas(components, selectedComponent)
       THEN LET x == CanvasLocal(dx)
                y == CanvasLocal(dy)
                component == MapGet(components, selectedComponent)
                moved == [component EXCEPT
                            !.x = DragPosition(x, dragOffset.x, component.width,
                                               guiProperties.width),
                            !.y = DragPosition(y, dragOffset.y, component.height,
                                               guiProperties.height)]
            IN  components' = MapSet(components, selectedComponent, moved)
       ELSE UNCHANGED components
    /\ gesture' = GestureMoved(dx, dy)
    /\ UNCHANGED <<selectedComponent, guiProperties, isDragging, dragOffset>>

\* Faulty variant of OnCanvasMouseUp: the release toggles the flag.
OnCanvasMouseUpToggle ==
    /\ CountEvent
    /\ lastEvent' = "mouseup"
    /\ isDragging' = ~isDragging
    /\ gesture' = GestureReleased
    /\ UNCHANGED <<components, selectedComponent, guiProperties, dragOffset>>

\* onCanvasMouseUp
OnCanvasMouseUp ==
    /\ CountEvent
    /\ lastEvent' = "mouseup"
    /\ IF isDragging THEN isDragging' = FALSE ELSE UNCHANGED isDragging
    /\ gesture' = GestureReleased
    /\ UNCHANGED <<components, selectedComponent, guiProperties, dragOffset>>

\* Faulty variant of HandleKeyboard: Delete leaves the selection as it was.
HandleKeyboardKeepSelection(key, ctrlKey) ==
    /\ CountEvent
    /\ lastEvent' = IF key = "Delete" /\ selectedComponent # NullId
                    THEN "delete" ELSE "key"
    /\ IF key = "Delete" /\ selectedComponent # NullId
       THEN components' = MapDelete(components, selectedComponent)
       ELSE UNCHANGED components
    /\ gesture' = GestureInterrupted
    /\ UNCHANGED <<selectedComponent, guiProperties, isDragging, dragOffset>>

\* handleKeyboard: the Ctrl shortcuts open dialogs or report "not implemented"
\* and change nothing of the session; Delete removes the selected component.
HandleKeyboard(key, ctrlKey) ==
    /\ CountEvent
    /\ lastEvent' = IF key = "Delete" /\ selectedComponent # NullId
                    THEN "delete" ELSE "key"
    /\ IF key = "Delete" /\ selectedComponent # NullId
       THEN /\ components' = MapDelete(components, selectedComponent)
            /\ selectedComponent' = NullId
       ELSE UNCHANGED <<components, selectedComponent>>
    /\ gesture' = GestureInterrupted
    /\ UNCHANGED <<guiProperties, isDragging, dragOffset>>

\* Faulty variant of ClearCanvas: the components go, the selection stays.
ClearCanvasKeepSelection(confirmed) ==
    /\ CountEvent
    /\ lastEvent' = IF Len(components) = 0 THEN "clearNothing"
                    ELSE IF confirmed THEN "clear" ELSE "clearDeclined"
    /\ IF Len(components) > 0 /\ confirmed
       THEN components' = << >>
       ELSE UNCHANGED components
    /\ gesture' = GestureInterrupted
    /\ UNCHANGED <<selectedComponent, guiProperties, isDragging, dragOffset>>

\* Faulty variant of ClearCanvas: the answer to confirm(...) is not used.
ClearCanvasUnguarded(confirmed) ==
    /\ CountEvent
    /\ lastEvent' = IF Len(components) = 0 THEN "clearNothing"
                    ELSE IF confirmed THEN "clear" ELSE "clearDeclined"
    /\ IF Len(components) > 0
       THEN /\ components' = << >>
            /\ selectedComponent' = NullId
       ELSE UNCHANGED <<components, selectedComponent>>
    /\ gesture' = GestureInterrupted
    /\ UNCHANGED <<guiProperties, isDragging, dragOffset>>

\* clearCanvas; confirmed is the answer to confirm(...), asked only when the
\* canvas is not empty.
ClearCanvas(confirmed) ==
    /\ CountEvent
    /\ lastEvent' = IF Len(components) = 0 THEN "clearNothing"
                    ELSE IF confirmed THEN "clear" ELSE "clearDeclined"
    /\ IF Len(components) > 0 /\ confirmed
       THEN /\ components' = << >>
            /\ selectedComponent' = NullId
       ELSE UNCHANGED <<components, selectedComponent>>
    /\ gesture' = GestureInterrupted
    /\ UNCHANGED <<guiProperties, isDragging, dragOffset>>

\* if (width && height ...): NaN and 0 are falsy
Truthy(v) == ~v.isNaN /\ v.n # 0

\* Faulty variant of AtLeast: any number passes.
AtLeastAnyNumber(v, bound) == ~v.isNaN

\* width >= 200: a comparison with NaN is false
AtLeast(v, bound) == ~v.isNaN /\ v.n >= bound

\* Faulty variant of UpdateCanvasSize: each dimension is validated and
\* stored on its own.
UpdateCanvasSizeEach(width, height) ==
    /\ CountEvent
    /\ lastEvent' = IF /\ Truthy(width) /\ Truthy(height)
                       /\ AtLeast(width, MinCanvasWidth)
                       /\ AtLeast(height, MinCanvasHeight)
                    THEN "resize" ELSE "resizeRejected"
    /\ guiProperties' =
           [guiProperties EXCEPT
              !.width = IF Truthy(width) /\ AtLeast(width, MinCanvasWidth)
                        THEN width.n ELSE @,
              !.height = IF Truthy(height) /\ AtLeast(height, MinCanvasHeight)
                         THEN height.n ELSE @]
    /\ gesture' = GestureInterrupted
    /\ UNCHANGED <<components, selectedComponent, isDragging, dragOffset>>

\* updateCanvasSize, width and height the results of parseInt
UpdateCanvasSize(width, height) ==
    /\ CountEvent
    /\ lastEvent' = IF /\ Truthy(width) /\ Truthy(height)
                       /\ AtLeast(width, MinCanvasWidth)
                       /\ AtLeast(height, MinCanvasHeight)
                    THEN "resize" ELSE "resizeRejected"
    /\ IF /\ Truthy(width) /\ Truthy(height)
          /\ AtLeast(width, MinCanvasWidth) /\ AtLeast(height, MinCanvasHeight)
       THEN guiProperties' = [guiProperties EXCEPT !.width = width.n,
                                                   !.height = height.n]
       ELSE UNCHANGED guiProperties
    /\ gesture' = GestureInterrupted
    /\ UNCHANGED <<components, selectedComponent, isDragging, dragOffset>>

\* updateBackgroundColor
UpdateBackgroundColor(color) ==
    /\ CountEvent
    /\ lastEvent' = "backgroundColor"
    /\ guiProperties' = [guiProperties EXCEPT !.backgroundColor = color]
    /\ gesture' = GestureInterrupted
    /\ UNCHANGED <<components, selectedComponent, isDragging, dragOffset>>

\* Faulty variant of NewProject: the canvas configuration is kept.
NewProjectKeepConfig ==
    /\ CountEvent
    /\ lastEvent' = "newProject"
    /\ components' = << >>
    /\ selectedComponent' = NullId
    /\ gesture' = GestureInterrupted
    /\ UNCHANGED <<guiProperties, isDragging, dragOffset>>

\* newProject (the confirm button of the new-project dialog)
NewProject ==
    /\ CountEvent
    /\ lastEvent' = "newProject"
    /\ components' = << >>
    /\ selectedComponent' = NullId
    /\ guiProperties' = DefaultGuiProperties
    /\ gesture' = GestureInterrupted
    /\ UNCHANGED <<isDragging, dragOffset>>

(***************************************************************************)
(* Exporters.  JUCECodeGenerator and FileManager are loaded by the page    *)
(* from scripts of their own; their outputs are written here after the     *)
(* description of the three formats, as sequences of entries in the place  *)
(* of the text.                                                            *)
(***************************************************************************)

\* The members of a persisted component, in the order they are written.
PersistedFields ==
    <<"id", "type", "x", "y", "width", "height", "text", "color", "textColor",
      "fontSize", "minValue", "maxValue", "defaultValue",
      "sliderColor", "thumbColor", "knobColor", "pointerColor", "pressed",
      "toggledColor", "toggled", "borderColor", "alignment", "placeholder",
      "meterColor", "peakColor", "level", "options", "selectedIndex">>

\* The name/value members written for descriptor c
Members(c) ==
    LET names == SelectSeq(PersistedFields, LAMBDA f : f \in DOMAIN c)
    IN  [i \in DOMAIN names |-> <<names[i], c[names[i]]>>]

\* JUCECodeGenerator.generateCode: per descriptor, in insertion order, a
\* section comment with its text, then its style, range, value and bounds,
\* then the statement that makes it visible.
GenerateCode(m, gui) ==
    [i \in DOMAIN m |-> [section |->
        <<[statement |-> "comment", text |-> m[i].text],
          [statement |-> "style", color |-> m[i].color,
           textColor |-> m[i].textColor],
          [statement |-> "setRange", min |-> m[i].minValue,
           max |-> m[i].maxValue],
          [statement |-> "setValue", value |-> m[i].defaultValue],
          [statement |-> "setBounds", x |-> m[i].x, y |-> m[i].y,
           width |-> m[i].width, height |-> m[i].height],
          [statement |-> "addAndMakeVisible", type |-> m[i].type]>>]]

\* Faulty variant of ExportToJSON: y is written from x.
ExportToJSONYFromX(m, gui) ==
    <<[canvas |-> gui]>>
    \o [i \in DOMAIN m |-> [component |-> Members([m[i] EXCEPT !.y = m[i].x])]]

\* FileManager.exportToJSON: the root's canvas, then one entry per descriptor
\* in insertion order.
ExportToJSON(m, gui) ==
    <<[canvas |-> gui]>> \o [i \in DOMAIN m |-> [component |-> Members(m[i])]]

\* FileManager.exportToXML: a canvas element holding the components, each
\* tagged with its kind and holding its position, size, text and range.
ExportToXML(m, gui) ==
    <<[tag |-> "canvas", width |-> gui.width, height |-> gui.height,
       children |->
           [i \in DOMAIN m |->
               [tag |-> "component", type |-> m[i].type, id |-> m[i].id,
                children |->
                    <<[tag |-> "position", x |-> m[i].x, y |-> m[i].y],
                      [tag |-> "size", width |-> m[i].width,
                       height |-> m[i].height],
                      [tag |-> "text", text |-> m[i].text],
                      [tag |-> "range", min |-> m[i].minValue,
                       max |-> m[i].maxValue,
                       default |-> m[i].defaultValue]>>]]]>>

\* A reader of the structured document: each entry's descriptor is made by
\* the factory from its type, id, x and y, and then given the members read.
ReconstructComponents(document) ==
    [i \in 1..(Len(document) - 1) |->
        LET members == document[i + 1].component
            read == [name \in {members[k][1] : k \in DOMAIN members} |->
                        members[CHOOSE k \in DOMAIN members :
                                    members[k][1] = name][2]]
        IN  Assign(CreateComponent(read.type, read.id, read.x, read.y), read)]

\* The event recorded for an export in the given format; again tells that
\* the event before it was an export in that format too.
ExportEvent(selectedFormat, again) ==
    CASE selectedFormat = "juce" ->
             IF again THEN "exportJuceAgain" ELSE "exportJuce"
      [] selectedFormat = "json" ->
             IF again THEN "exportJsonAgain" ELSE "exportJson"
      [] selectedFormat = "xml" ->
             IF again THEN "exportXmlAgain" ELSE "exportXml"

\* Faulty variant of UpdateExportOutput: the selection is cleared before the
\* export.
UpdateExportOutputDeselecting(selectedFormat) ==
    /\ events < horizon /\ events' = events + 1
    /\ exportOutput' =
           IF selectedFormat = "juce" /\ "JUCECodeGenerator" \in window
           THEN GenerateCode(components, guiProperties)
           ELSE IF selectedFormat = "json" /\ "FileManager" \in window
           THEN ExportToJSON(components, guiProperties)
           ELSE IF selectedFormat = "xml" /\ "FileManager" \in window
           THEN ExportToXML(components, guiProperties)
           ELSE <<[text |-> "// Code generation not available yet"]>>
    /\ selectedComponent' = NullId
    /\ lastEvent' = ExportEvent(selectedFormat,
                                lastEvent \in {ExportEvent(selectedFormat, FALSE),
                                               ExportEvent(selectedFormat, TRUE)})
    /\ gesture' = GestureInterrupted
    /\ UNCHANGED <<components, guiProperties, isDragging,
                   dragOffset, call, window, horizon>>

\* updateExportOutput; selectedFormat is the value of the checked radio
\* button.
UpdateExportOutput(selectedFormat) ==
    /\ events < horizon /\ events' = events + 1
    /\ exportOutput' =
           IF selectedFormat = "juce" /\ "JUCECodeGenerator" \in window
           THEN GenerateCode(components, guiProperties)
           ELSE IF selectedFormat = "json" /\ "FileManager" \in window
           THEN ExportToJSON(components, guiProperties)
           ELSE IF selectedFormat = "xml" /\ "FileManager" \in window
           THEN ExportToXML(components, guiProperties)
           ELSE <<[text |-> "// Code generation not available yet"]>>
    /\ lastEvent' = ExportEvent(selectedFormat,
                                lastEvent \in {ExportEvent(selectedFormat, FALSE),
                                               ExportEvent(selectedFormat, TRUE)})
    /\ gesture' = GestureInterrupted
    /\ UNCHANGED <<components, selectedComponent, guiProperties, isDragging,
                   dragOffset, call, window, horizon>>

Next ==
    \/ \E type \in ToolboxTypes, id \in GeneratedIds(components),
          rx \in RandomValues, ry \in RandomValues :
           OnComponentSelected(type, id, rx, ry)
    \/ \E type \in ToolboxTypes \cup {NoPayload}, id \in GeneratedIds(components),
          d \in DropPoints :
           OnCanvasDrop(type, id, d[1], d[2])
    \/ \E dx \in PointerXs, dy \in PointerYs : OnCanvasClick(dx, dy)
    \/ \E dx \in PointerXs, dy \in PointerYs : OnCanvasMouseDown(dx, dy)
    \/ \E dx \in PointerXs, dy \in PointerYs : OnCanvasMouseMove(dx, dy)
    \/ OnCanvasMouseUp
    \/ \E key \in KeyInputs, ctrlKey \in BOOLEAN : HandleKeyboard(key, ctrlKey)
    \/ \E confirmed \in BOOLEAN : ClearCanvas(confirmed)
    \/ \E width \in WidthInputs, height \in HeightInputs :
           UpdateCanvasSize(width, height)
    \/ \E color \in BackgroundColors : UpdateBackgroundColor(color)
    \/ NewProject

Spec == Init /\ [][Next]_vars

(***************************************************************************)
(* The session with its export panel, in a page that has loaded the        *)
(* exporter scripts or has not.                                            *)
(***************************************************************************)
ExportInit ==
    /\ components = << >>
    /\ selectedComponent = NullId
    /\ guiProperties = DefaultGuiProperties
    /\ isDragging = FALSE
    /\ dragOffset = [x |-> 0, y |-> 0]
    /\ lastEvent = "init"
    /\ events = 0
    /\ call = NoCall
    /\ exportOutput = << >>
    /\ window \in WindowInputs
    /\ gesture = NoGesture
    /\ horizon = MaxEvents

ExportNext ==
    \/ Next
    \/ \E selectedFormat \in ExportFormats : UpdateExportOutput(selectedFormat)

ExportSpec == ExportInit /\ [][ExportNext]_vars

(***************************************************************************)
(* selectionManager.js: the highlight marker and the focus of the elements *)
(* of a page.  A page is [highlight, focus]: the elements whose classList  *)
(* holds 'highlight-border', and document.activeElement.                   *)
(***************************************************************************)

\* el = null, container = null
NullElement == "null"

\* The elements inside the container, and one element of the page outside
\* it.
ContainerElements == {"knob1", "knob2", "knob3"}

OutsideElements == {"toolbox"}

\* The container the calls pass, or none.
ContainerInputs == {"canvas", NullElement}

\* container.querySelectorAll('.highlight-border')
QuerySelectorAll(page, container) ==
    IF container = "canvas" THEN page.highlight \cap ContainerElements ELSE {}

\* deselectAll(container)
DeselectAll(page, container) ==
    IF container = NullElement THEN page
    ELSE LET selected == QuerySelectorAll(page, container)
         IN  [highlight |-> page.highlight \ selected,
              focus |-> IF page.focus \in selected THEN NullElement
                        ELSE page.focus]

\* Faulty variant of SelectComponentElement: the container is not cleared.
SelectComponentElementAdding(page, el, container) ==
    IF el = NullElement THEN page
    ELSE [highlight |-> page.highlight \cup {el}, focus |-> el]

\* selectComponent(el, container)
SelectComponentElement(page, el, container) ==
    IF el = NullElement THEN page
    ELSE LET cleared == IF container # NullElement
                        THEN DeselectAll(page, container) ELSE page
         IN  [highlight |-> cleared.highlight \cup {el}, focus |-> el]

(***************************************************************************)
(* utils.js: throttle and debounce.  A wrapper is the closure the helper   *)
(* returns together with what its environment holds: the timers that       *)
(* setTimeout has armed and that have neither fired nor been cleared, the  *)
(* arguments func has been invoked with, and the arguments of the calls of *)
(* the wrapper, in order.                                                  *)
(***************************************************************************)

\* Number of calls of a wrapper in a run.
MaxWrapperCalls == 3

\* The argument of a call of the wrapper
WrapperArgs == {"a", "b"}

\* limit and wait, in milliseconds
DelayInputs == {0, 100}

\* Utils.throttle(func, limit): let inThrottle, undefined and so falsy
Throttle(limit) ==
    [inThrottle |-> FALSE, timers |-> 0, invoked |-> << >>, calls |-> << >>]

\* Faulty variant of ThrottledFunction: inThrottle is never set.
ThrottledFunctionUnflagged(w, arg) ==
    IF ~w.inThrottle
    THEN [w EXCEPT !.invoked = Append(@, arg),
                   !.timers = @ + 1,
                   !.calls = Append(@, arg)]
    ELSE [w EXCEPT !.calls = Append(@, arg)]

\* The function throttle returns, called with arg
ThrottledFunction(w, arg) ==
    IF ~w.inThrottle
    THEN [w EXCEPT !.invoked = Append(@, arg),
                   !.inThrottle = TRUE,
                   !.timers = @ + 1,
                   !.calls = Append(@, arg)]
    ELSE [w EXCEPT !.calls = Append(@, arg)]

\* The callback throttle hands to setTimeout: () => inThrottle = false
ThrottleTimeout(w) == [w EXCEPT !.inThrottle = FALSE, !.timers = @ - 1]

\* let timeout: undefined, and null once later has run; both falsy.  The ids
\* setTimeout returns are positive.
NoTimeout == 0

\* Utils.debounce(func, wait, immediate)
Debounce(wait, immediate) ==
    [timeout |-> NoTimeout, timers |-> {}, invoked |-> << >>, calls |-> << >>]

\* Faulty variant of ExecutedFunction: the timer of the call before is not
\* cleared.
ExecutedFunctionNoClear(w, immediate, arg) ==
    LET callNow == immediate /\ w.timeout = NoTimeout
        id == Len(w.calls) + 1
    IN  [timeout |-> id,
         timers |-> w.timers \cup {[id |-> id, args |-> arg]},
         invoked |-> IF callNow THEN Append(w.invoked, arg) ELSE w.invoked,
         calls |-> Append(w.calls, arg)]

\* executedFunction(...args), the function debounce returns; id is the id
\* setTimeout returns for the new timer.
ExecutedFunction(w, immediate, arg) ==
    LET callNow == immediate /\ w.timeout = NoTimeout
        id == Len(w.calls) + 1
    IN  [timeout |-> id,
         timers |-> {t \in w.timers : t.id # w.timeout}
                        \cup {[id |-> id, args |-> arg]},
         invoked |-> IF callNow THEN Append(w.invoked, arg) ELSE w.invoked,
         calls |-> Append(w.calls, arg)]

\* later, the callback of timer t, which holds the arguments of the call
\* that armed it
Later(w, immediate, t) ==
    [w EXCEPT !.timeout = NoTimeout,
              !.timers = @ \ {t},
              !.invoked = IF ~immediate THEN Append(@, t.args) ELSE @]

(***************************************************************************)
(* The session through whole drag gestures: up to two knobs from the       *)
(* toolbox, presses, moves, releases and clicks along one row of the       *)
(* canvas, the Delete key.  The pointer stays on the canvas, whose         *)
(* listeners receive these events.                                         *)
(***************************************************************************)

\* Number of events a run of gestures handles.
MaxGestureEvents == 6

\* Number of descriptors a run of gestures places.
MaxGestureComponents == 2

\* clientX - rect.left of the events of a gesture: inside a knob placed at
\* x = 0, inside a knob placed at x = 200, next to the right edge.
GestureXs == {30, 230, 395}

\* clientY - rect.top of the events of a gesture
GestureY == 10

GestureInit ==
    /\ components = << >>
    /\ selectedComponent = NullId
    /\ guiProperties = DefaultGuiProperties
    /\ isDragging = FALSE
    /\ dragOffset = [x |-> 0, y |-> 0]
    /\ lastEvent = "init"
    /\ events = 0
    /\ call = NoCall
    /\ exportOutput = << >>
    /\ window = {}
    /\ gesture = NoGesture
    /\ horizon = MaxGestureEvents

GestureNext ==
    \/ \E id \in GeneratedIds(components), rx \in RandomValues :
           /\ Len(components) < MaxGestureComponents
           /\ OnComponentSelected("knob", id, rx, <<0, 1>>)
    \/ \E dx \in GestureXs : OnCanvasClick(dx, GestureY)
    \/ \E dx \in GestureXs : OnCanvasMouseDown(dx, GestureY)
    \/ \E dx \in GestureXs : OnCanvasMouseMove(dx, GestureY)
    \/ OnCanvasMouseUp
    \/ HandleKeyboard("Delete", FALSE)

GestureSpec == GestureInit /\ [][GestureNext]_vars

(***************************************************************************)
(* The static helpers called on their own: one call, from its arguments to *)
(* its result, in a session that is otherwise left in its initial state.   *)
(***************************************************************************)

\* Arguments of normalizeValue
NumberInputs ==
    {NotANumber, Infinity(1), Infinity(-1),
     Fraction(-1, 1), Zero, Fraction(1, 2), One, Fraction(2, 1)}

\* The nine type tags of the factory's switch
KnownTypes ==
    {"horizontalslider", "verticalslider", "knob", "button", "toggle",
     "label", "textbox", "meter", "combobox"}

\* Type tags passed to the factory; "widget" and "Knob" match no case.
FactoryTypes == KnownTypes \cup {"widget", "Knob"}

\* Positions passed to the factory
FactoryXs == {0, 25}

FactoryYs == {0, 40}

\* Type tags passed to createComponentOnCanvas
OnCanvasTypes == {"knob", "button", "widget"}

\* The children of the canvas element before the call
CanvasInputs == {<< >>, <<CreateKnob(0, 0)>>}

\* Date.now() at a rendering
ClockInputs == {1250, 1750}

\* Descriptors passed to the renderer: one of each kind as the factory makes
\* it, shown or hidden, with its text or with an empty one.
RenderInputs ==
    {[CreateComponent(type, 1, 0, 0) EXCEPT !.visible = visible,
                                            !.text = IF keepText THEN @ ELSE ""] :
         type \in FactoryTypes, visible \in BOOLEAN, keepText \in BOOLEAN}

Calls ==
    {[fn |-> "normalizeValue", args |-> <<value, min, max>>,
      returned |-> FALSE, result |-> << >>] :
         value \in NumberInputs, min \in NumberInputs, max \in NumberInputs}
    \cup
    {[fn |-> "createComponent", args |-> <<type, id, x, y>>,
      returned |-> FALSE, result |-> << >>] :
         type \in FactoryTypes, id \in Ids, x \in FactoryXs, y \in FactoryYs}
    \cup
    {[fn |-> "getDefaultSize", args |-> <<type>>,
      returned |-> FALSE, result |-> << >>] : type \in FactoryTypes}
    \cup
    {[fn |-> "render", args |-> <<component, isSelected, now>>,
      returned |-> FALSE, result |-> << >>] :
         component \in RenderInputs, isSelected \in BOOLEAN, now \in ClockInputs}
    \cup
    {[fn |-> "createComponentOnCanvas", args |-> <<type, x, y, canvas>>,
      returned |-> FALSE, result |-> << >>] :
         type \in OnCanvasTypes, x \in FactoryXs, y \in FactoryYs,
         canvas \in CanvasInputs}
    \cup
    {[fn |-> "document", args |-> << >>, returned |-> TRUE,
      result |-> [highlight |-> {}, focus |-> NullElement]]}
    \cup
    {[fn |-> "throttle", args |-> <<limit>>,
      returned |-> FALSE, result |-> << >>] : limit \in DelayInputs}
    \cup
    {[fn |-> "debounce", args |-> <<wait, immediate>>,
      returned |-> FALSE, result |-> << >>] :
         wait \in DelayInputs, immediate \in BOOLEAN}

CallInit ==
    /\ call \in Calls
    /\ components = << >>
    /\ selectedComponent = NullId
    /\ guiProperties = DefaultGuiProperties
    /\ isDragging = FALSE
    /\ dragOffset = [x |-> 0, y |-> 0]
    /\ lastEvent = "init"
    /\ events = 0
    /\ exportOutput = << >>
    /\ window = {}
    /\ gesture = NoGesture
    /\ horizon = MaxEvents

Session == <<components, selectedComponent, guiProperties, isDragging,
             dragOffset, lastEvent, events, exportOutput, window, gesture,
             horizon>>

NormalizeValueCall ==
    /\ call.fn = "normalizeValue" /\ ~call.returned
    /\ call' = [call EXCEPT !.returned = TRUE,
                            !.result = NormalizeValue(call.args[1], call.args[2],
                                                      call.args[3])]
    /\ UNCHANGED Session

CreateComponentCall ==
    /\ call.fn = "createComponent" /\ ~call.returned
    /\ call' = [call EXCEPT !.returned = TRUE,
                            !.result = CreateComponent(call.args[1], call.args[2],
                                                       call.args[3], call.args[4])]
    /\ UNCHANGED Session

GetDefaultSizeCall ==
    /\ call.fn = "getDefaultSize" /\ ~call.returned
    /\ call' = [call EXCEPT !.returned = TRUE,
                            !.result = GetDefaultSize(call.args[1])]
    /\ UNCHANGED Session

RenderCall ==
    /\ call.fn = "render" /\ ~call.returned
    /\ call' = [call EXCEPT !.returned = TRUE,
                            !.result = Render(call.args[1], call.args[2],
                                              call.args[3])]
    /\ UNCHANGED Session

\* createComponentOnCanvas(type, x, y, canvas) up to its return or its throw
CreateComponentOnCanvasCall ==
    /\ call.fn = "createComponentOnCanvas" /\ ~call.returned
    /\ call' = [call EXCEPT !.returned = TRUE,
                            !.result = CreateComponentOnCanvas(
                                           call.args[1], call.args[2],
                                           call.args[3], call.args[4])]
    /\ UNCHANGED Session

\* Faulty variant of FetchSettles: a failed request takes the element off the
\* canvas again.
FetchSettlesRollback(ok) ==
    /\ call.fn = "createComponentOnCanvas" /\ call.returned
    /\ call.result.requests # << >>
    /\ call.result.requests[1].state = "pending"
    /\ call' = [call EXCEPT
                   !.result.requests[1].state = IF ok THEN "fulfilled" ELSE "rejected",
                   !.result.console =
                       IF ok THEN @
                       ELSE Append(@, "Component create event failed:"),
                   !.result.canvas =
                       IF ok THEN @ ELSE SubSeq(@, 1, Len(@) - 1)]
    /\ UNCHANGED Session

\* The promise fetch returned settles: fulfilled, or rejected, and then the
\* handler given to .catch logs the error.
FetchSettles(ok) ==
    /\ call.fn = "createComponentOnCanvas" /\ call.returned
    /\ call.result.requests # << >>
    /\ call.result.requests[1].state = "pending"
    /\ call' = [call EXCEPT
                   !.result.requests[1].state = IF ok THEN "fulfilled" ELSE "rejected",
                   !.result.console =
                       IF ok THEN @
                       ELSE Append(@, "Component create event failed:")]
    /\ UNCHANGED Session

\* A call of deselectAll on the page the calls before it have left
DeselectAllCall(container) ==
    /\ call.fn \in {"document", "deselectAll", "selectComponent"}
    /\ call' = [fn |-> "deselectAll", args |-> <<container>>, returned |-> TRUE,
                result |-> DeselectAll(call.result, container)]
    /\ UNCHANGED Session

\* A call of selectComponent on the page the calls before it have left
SelectComponentElementCall(el, container) ==
    /\ call.fn \in {"document", "deselectAll", "selectComponent"}
    /\ call' = [fn |-> "selectComponent", args |-> <<el, container>>,
                returned |-> TRUE,
                result |-> SelectComponentElement(call.result, el, container)]
    /\ UNCHANGED Session

\* Utils.throttle(func, limit) returns its wrapper
ThrottleCall ==
    /\ call.fn = "throttle" /\ ~call.returned
    /\ call' = [call EXCEPT !.returned = TRUE,
                            !.result = Throttle(call.args[1])]
    /\ UNCHANGED Session

\* A call of the wrapper throttle returned
ThrottledFunctionCall(arg) ==
    /\ call.fn = "throttle" /\ call.returned
    /\ Len(call.result.calls) < MaxWrapperCalls
    /\ call' = [call EXCEPT !.result = ThrottledFunction(@, arg)]
    /\ UNCHANGED Session

\* The limit has passed: the timer fires
ThrottleTimeoutFires ==
    /\ call.fn = "throttle" /\ call.returned
    /\ call.result.timers > 0
    /\ call' = [call EXCEPT !.result = ThrottleTimeout(@)]
    /\ UNCHANGED Session

\* Utils.debounce(func, wait, immediate) returns its wrapper
DebounceCall ==
    /\ call.fn = "debounce" /\ ~call.returned
    /\ call' = [call EXCEPT !.returned = TRUE,
                            !.result = Debounce(call.args[1], call.args[2])]
    /\ UNCHANGED Session

\* A call of the wrapper debounce returned
ExecutedFunctionCall(arg) ==
    /\ call.fn = "debounce" /\ call.returned
    /\ Len(call.result.calls) < MaxWrapperCalls
    /\ call' = [call EXCEPT !.result = ExecutedFunction(@, call.args[2], arg)]
    /\ UNCHANGED Session

\* The wait has passed for a timer that was not cleared: it fires
LaterFires ==
    /\ call.fn = "debounce" /\ call.returned
    /\ \E t \in call.result.timers :
           call' = [call EXCEPT !.result = Later(@, call.args[2], t)]
    /\ UNCHANGED Session

CallNext ==
    \/ NormalizeValueCall
    \/ CreateComponentCall
    \/ GetDefaultSizeCall
    \/ RenderCall
    \/ CreateComponentOnCanvasCall
    \/ \E ok \in BOOLEAN : FetchSettles(ok)
    \/ \E container \in ContainerInputs : DeselectAllCall(container)
    \/ \E el \in ContainerElements \cup OutsideElements \cup {NullElement},
          container \in ContainerInputs :
           SelectComponentElementCall(el, container)
    \/ ThrottleCall
    \/ \E arg \in WrapperArgs : ThrottledFunctionCall(arg)
    \/ ThrottleTimeoutFires
    \/ DebounceCall
    \/ \E arg \in WrapperArgs : ExecutedFunctionCall(arg)
    \/ LaterFires

CallSpec == CallInit /\ [][CallNext]_vars

\* The helpers with their timers: a timer that setTimeout has armed and that
\* is not cleared fires once its delay has passed.
TimerSpec ==
    /\ CallInit /\ [][CallNext]_vars
    /\ WF_vars(ThrottleTimeoutFires) /\ WF_vars(LaterFires)

(***************************************************************************)
(* Properties.  The geometry below is stated on its own, not through the   *)
(* operators of the controller.                                            *)
(***************************************************************************)

\* The point (x, y) lies within the bounds of descriptor c, edges included.
Inside(c, x, y) ==
    /\ c.x <= x /\ x <= c.x + c.width
    /\ c.y <= y /\ y <= c.y + c.height

\* Descriptor c lies fully within the canvas.
OnCanvas(c) ==
    /\ c.x >= 0 /\ c.y >= 0
    /\ c.x + c.width <= guiProperties.width
    /\ c.y + c.height <= guiProperties.height

\* v clamped to the interval [lo, hi]
Clamped(v, lo, hi) == IF v < lo THEN lo ELSE IF v > hi THEN hi ELSE v

\* The selected id names a descriptor of the session.
SelectionLive ==
    \E i \in DOMAIN components : components[i].id = selectedComponent

\* The descriptor with the given id, in the current and in the next state.
Descriptor(id) == components[CHOOSE i \in DOMAIN components : components[i].id = id]

DescriptorAfter(id) ==
    components'[CHOOSE i \in DOMAIN components' : components'[i].id = id]

\* The entries of the session whose bounds contain the canvas-local point.
Hits(x, y) == {i \in DOMAIN components : Inside(components[i], x, y)}

\* C1. Drag clamp: after a Move handled while a drag is in progress, whatever
\* the pointer position, the dragged descriptor lies fully within the canvas:
\* x >= 0, y >= 0, x + width <= canvasWidth, y + height <= canvasHeight.
DragClamp ==
    (lastEvent = "mousemove" /\ isDragging /\ SelectionLive)
        => OnCanvas(Descriptor(selectedComponent))

\* A Move with the pointer beyond the right edge and above the top edge left
\* the dragged descriptor against both edges.
DragClampWitness ==
    /\ lastEvent = "mousemove" /\ isDragging /\ SelectionLive
    /\ Descriptor(selectedComponent).x + Descriptor(selectedComponent).width
           = guiProperties.width
    /\ Descriptor(selectedComponent).y = 0

\* C2. Selection weak reference: in every reachable state the selected id is
\* empty or the id of a descriptor currently in the session.
SelectionResolves == selectedComponent = NullId \/ SelectionLive

\* A click selected one of two descriptors of the session.
SelectionResolvesWitness ==
    lastEvent = "click" /\ Len(components) = 2 /\ SelectionLive

\* C3. Topmost wins: a click on a point inside two or more descriptors selects
\* the one inserted last among them.
TopmostWins ==
    [][\A dx \in PointerXs, dy \in PointerYs :
         LET hits == Hits(CanvasLocal(dx), CanvasLocal(dy))
         IN  (OnCanvasClick(dx, dy) /\ Cardinality(hits) >= 2)
                 => selectedComponent' =
                        components[CHOOSE i \in hits : \A j \in hits : j <= i].id
      ]_vars

\* C4. Delete: with a descriptor selected, the delete command removes exactly
\* that descriptor, keeps all the others unchanged and in order, and empties
\* the selection; with nothing selected it changes nothing.
DeleteRemovesSelected ==
    [][\A ctrlKey \in BOOLEAN :
         HandleKeyboard("Delete", ctrlKey) =>
             IF selectedComponent # NullId
             THEN /\ selectedComponent' = NullId
                  /\ \E i \in DOMAIN components :
                        /\ components[i].id = selectedComponent
                        /\ components' =
                               SubSeq(components, 1, i - 1)
                                   \o SubSeq(components, i + 1, Len(components))
             ELSE UNCHANGED <<components, selectedComponent, guiProperties,
                              isDragging, dragOffset>>
      ]_vars

\* Delete removed the selected descriptor and another one stayed.
DeleteRemovesSelectedWitness ==
    lastEvent = "delete" /\ Len(components) = 1 /\ selectedComponent = NullId

\* C5. Clear canvas: after a confirmed clear-canvas command the session holds
\* no descriptor and the selected id is empty, whatever the prior state.
ClearEmptiesSession ==
    [][ClearCanvas(TRUE) => (components' = << >> /\ selectedComponent' = NullId)]_vars

\* A confirmed clear of a canvas that held descriptors.
ClearEmptiesSessionWitness ==
    lastEvent = "clear" /\ components = << >> /\ selectedComponent = NullId

\* C6. Auto-select on add: right after an add by toolbox click or by a drop
\* that carries a kind, the selected id is the id of the new descriptor, and
\* that descriptor (of the requested kind) is in the session.
AddSelectsNew ==
    [][/\ \A type \in ToolboxTypes, id \in Ids, rx \in RandomValues, ry \in RandomValues :
             OnComponentSelected(type, id, rx, ry) =>
                 /\ selectedComponent' = id
                 /\ \E i \in DOMAIN components' :
                        components'[i].id = id /\ components'[i].type = type
       /\ \A type \in ToolboxTypes, id \in Ids, d \in DropPoints :
             OnCanvasDrop(type, id, d[1], d[2]) =>
                 /\ selectedComponent' = id
                 /\ \E i \in DOMAIN components' :
                        components'[i].id = id /\ components'[i].type = type
      ]_vars

\* A second component was added and is the selected one.
AddSelectsNewWitness ==
    /\ lastEvent \in {"toolbox", "drop"}
    /\ Len(components) = 2
    /\ selectedComponent = components[2].id

\* C7. Click selection is single-valued: a click inside some descriptor makes
\* a descriptor containing the point the selected id; a click inside no
\* descriptor leaves the selected id empty.
ClickSelects ==
    [][\A dx \in PointerXs, dy \in PointerYs :
         OnCanvasClick(dx, dy) =>
             IF Hits(CanvasLocal(dx), CanvasLocal(dy)) # {}
             THEN \E i \in Hits(CanvasLocal(dx), CanvasLocal(dy)) :
                      selectedComponent' = components[i].id
             ELSE selectedComponent' = NullId
      ]_vars

\* A click replaced the selection: the second descriptor had been selected by
\* its add, the click selected the first.
ClickSelectsWitness ==
    /\ lastEvent = "click" /\ events = 3 /\ Len(components) = 2
    /\ selectedComponent = components[1].id

\* C8. Press: a press within the bounds of the selected descriptor starts a
\* drag and records offset = (pressX - x, pressY - y); a press with nothing
\* selected, or outside the selected descriptor, starts no drag.
PressStartsDrag ==
    [][\A dx \in PointerXs, dy \in PointerYs :
         OnCanvasMouseDown(dx, dy) =>
             IF SelectionLive
                /\ Inside(Descriptor(selectedComponent), CanvasLocal(dx), CanvasLocal(dy))
             THEN /\ isDragging'
                  /\ dragOffset' =
                         [x |-> CanvasLocal(dx) - Descriptor(selectedComponent).x,
                          y |-> CanvasLocal(dy) - Descriptor(selectedComponent).y]
             ELSE UNCHANGED <<isDragging, dragOffset>>
      ]_vars

\* A press inside the selected descriptor, away from its origin.
PressStartsDragWitness ==
    /\ lastEvent = "mousedown" /\ isDragging /\ SelectionLive
    /\ dragOffset.x > 0 /\ dragOffset.y > 0

\* C9. Release ends the drag unconditionally: after any release the controller
\* is idle, and the release changes no descriptor and no selection.
ReleaseEndsDrag ==
    [][OnCanvasMouseUp =>
           (~isDragging' /\ UNCHANGED <<components, selectedComponent>>)]_vars

\* A release after a press that had started a drag.
ReleaseEndsDragWitness ==
    /\ lastEvent = "mouseup" /\ ~isDragging /\ SelectionLive
    /\ dragOffset.x > 0

\* C10. Move result: a Move during a drag sets x and y of the dragged
\* descriptor, both in the same event, to (pointer - offset) clamped to
\* [0, canvas extent - descriptor extent]; where that is in range, the offset
\* recorded at the press is preserved.
MoveResult ==
    [][\A dx \in PointerXs, dy \in PointerYs :
         (isDragging /\ SelectionLive /\ OnCanvasMouseMove(dx, dy)) =>
             LET c == Descriptor(selectedComponent)
                 d == DescriptorAfter(selectedComponent)
                 ux == CanvasLocal(dx) - dragOffset.x
                 uy == CanvasLocal(dy) - dragOffset.y
             IN  /\ d.x = Clamped(ux, 0, guiProperties.width - c.width)
                 /\ d.y = Clamped(uy, 0, guiProperties.height - c.height)
                 /\ (0 <= ux /\ ux <= guiProperties.width - c.width)
                        => CanvasLocal(dx) - d.x = dragOffset.x
                 /\ (0 <= uy /\ uy <= guiProperties.height - c.height)
                        => CanvasLocal(dy) - d.y = dragOffset.y
      ]_vars

\* A Move that changed both coordinates of the dragged descriptor, x clamped
\* at the far edge and y following the pointer.
MoveResultWitness ==
    /\ lastEvent = "mousemove" /\ isDragging /\ SelectionLive
    /\ Descriptor(selectedComponent).x + Descriptor(selectedComponent).width
           = guiProperties.width
    /\ Descriptor(selectedComponent).y > 0
    /\ Descriptor(selectedComponent).y + Descriptor(selectedComponent).height
           < guiProperties.height

\* C11. Drop clamp: for a drop carrying a kind, at any pointer position, the
\* new descriptor is placed so that the kind's default size fits on the
\* canvas: x >= 0, y >= 0, x + default width <= canvasWidth and
\* y + default height <= canvasHeight.
DropFitsDefaultSize ==
    [][\A type \in ToolboxTypes, id \in Ids, d \in DropPoints :
         OnCanvasDrop(type, id, d[1], d[2]) =>
             LET c == DescriptorAfter(id)
             IN  /\ c.x >= 0 /\ c.y >= 0
                 /\ c.x + GetDefaultSize(type).width <= guiProperties.width
                 /\ c.y + GetDefaultSize(type).height <= guiProperties.height
      ]_vars

\* C12. Invalid canvas resize is rejected: when the requested width or height
\* is not a number or is below the minimum (width < 200 or height < 150), the
\* canvas configuration keeps its prior width and height.
InvalidResizeRejected ==
    [][\A width \in WidthInputs, height \in HeightInputs :
         (/\ UpdateCanvasSize(width, height)
          /\ (width.isNaN \/ height.isNaN \/ width.n < 200 \/ height.n < 150))
             => guiProperties' = guiProperties
      ]_vars

\* A resize was rejected on a canvas that an earlier resize had changed.
InvalidResizeRejectedWitness ==
    /\ lastEvent = "resizeRejected"
    /\ guiProperties.width = 200 /\ guiProperties.height = 150

\* C13. Canvas size lower bound: in every reachable state the canvas is at
\* least 200 wide and 150 high.
CanvasAtLeastMinimum == guiProperties.width >= 200 /\ guiProperties.height >= 150

\* A resize to exactly the minimum size was accepted.
CanvasAtLeastMinimumWitness ==
    lastEvent = "resize" /\ guiProperties.width = 200 /\ guiProperties.height = 150

\* C14. Drop with missing payload: a drop that carries no kind tag adds no
\* descriptor, changes no descriptor and leaves the selection as it was; it
\* only reports a status.
EmptyDropIsNoOp ==
    [][\A id \in Ids, d \in DropPoints :
         OnCanvasDrop(NoPayload, id, d[1], d[2]) =>
             UNCHANGED <<components, selectedComponent, guiProperties,
                         isDragging, dragOffset>>
      ]_vars

\* A drop without payload arrived at a session holding a selected descriptor.
EmptyDropIsNoOpWitness ==
    lastEvent = "dropInvalid" /\ Len(components) = 1 /\ SelectionLive

\* C20. New project: after a confirmed new-project command the session holds
\* no descriptor, the selection is empty and the canvas configuration is the
\* default one (400 x 300, default background colour, default plugin and
\* manufacturer names), whatever the prior state.
NewProjectResets ==
    [][NewProject =>
           /\ components' = << >>
           /\ selectedComponent' = NullId
           /\ guiProperties' =
                  [width |-> 400, height |-> 300, backgroundColor |-> "#DDDDDD",
                   pluginName |-> "My Audio Plugin",
                   pluginManufacturer |-> "MyCompany"]
      ]_vars

\* A new project was started after at least two other events, a run long
\* enough to have added a descriptor and changed the canvas configuration.
NewProjectResetsWitness ==
    /\ lastEvent = "newProject" /\ events = 3
    /\ components = << >> /\ selectedComponent = NullId
    /\ guiProperties.width = 400 /\ guiProperties.backgroundColor = "#DDDDDD"

(***************************************************************************)
(* Properties of the static helpers, under CallSpec.                       *)
(***************************************************************************)

\* C15. Degenerate-range normalization: for all value, min, max with
\* max <= min, normalizeValue(value, min, max) returns exactly 0.
DegenerateRangeIsZero ==
    (call.fn = "normalizeValue" /\ call.returned
        /\ LessEq(call.args[3], call.args[2]))
    => call.result = [k |-> "finite", n |-> 0, d |-> 1]

\* normalizeValue(1/2, 1, 0) has returned 0: an inverted finite range.
DegenerateRangeIsZeroWitness ==
    /\ call.fn = "normalizeValue" /\ call.returned
    /\ call.args = <<Fraction(1, 2), One, Zero>>
    /\ call.result = Zero

\* The fraction (value - min) / (max - min) of three finite numbers, as the
\* pair of its numerator and its denominator; the denominator is positive
\* when max > min.
Ratio(value, min, max) ==
    <<(value.n * min.d - min.n * value.d) * max.d,
      (max.n * min.d - min.n * max.d) * value.d>>

\* Number r is the fraction f = <<numerator, denominator>> clamped to [0, 1].
IsClamped(r, f) ==
    /\ r.k = "finite"
    /\ IF f[1] <= 0 THEN r.n = 0
       ELSE IF f[1] >= f[2] THEN r.n = r.d
       ELSE r.n * f[2] = f[1] * r.d

\* C16, as stated. Valid-range normalization: for all value, min, max with
\* max > min the result is (value - min)/(max - min) clamped to [0,1]: exactly
\* 0 for value = min and below, exactly 1 for value = max and above.
ValidRangeClampsAll ==
    (call.fn = "normalizeValue" /\ call.returned
        /\ Less(call.args[2], call.args[3]))
    => LET value == call.args[1]
           min == call.args[2]
           max == call.args[3]
       IN  /\ LessEq(value, min) => (call.result.k = "finite" /\ call.result.n = 0)
           /\ LessEq(max, value)
                 => (call.result.k = "finite" /\ call.result.n = call.result.d)
           /\ (value.k = "finite" /\ min.k = "finite" /\ max.k = "finite")
                 => IsClamped(call.result, Ratio(value, min, max))

\* C16, amended. For finite value, min and max with max > min the result is
\* (value - min)/(max - min) clamped to [0,1]: exactly 0 for value = min,
\* exactly 1 for value = max, and within [0,1] for values below min or above
\* max.
ValidRangeClamps ==
    (call.fn = "normalizeValue" /\ call.returned
        /\ call.args[1].k = "finite" /\ call.args[2].k = "finite"
        /\ call.args[3].k = "finite"
        /\ Less(call.args[2], call.args[3]))
    => LET value == call.args[1]
           min == call.args[2]
           max == call.args[3]
       IN  /\ IsClamped(call.result, Ratio(value, min, max))
           /\ value = min => call.result.n = 0
           /\ value = max => call.result.n = call.result.d
           /\ 0 <= call.result.n /\ call.result.n <= call.result.d

\* normalizeValue(2, -1, 1) has returned 1: a value above the range.
ValidRangeClampsWitness ==
    /\ call.fn = "normalizeValue" /\ call.returned
    /\ call.args = <<Fraction(2, 1), Fraction(-1, 1), One>>
    /\ call.result = One

\* The fields every descriptor carries, and the fields only some kinds carry.
BaseFields ==
    {"id", "type", "x", "y", "width", "height", "text", "color", "textColor",
     "fontSize", "minValue", "maxValue", "defaultValue", "visible", "enabled"}

\* C17. Factory forward compatibility: createComponent(kind, id, x, y) always
\* returns: for each of the nine known kinds a descriptor of that kind (its tag, and
\* fields beyond the common ones) with the given id, x and y, and for any other
\* kind a generic descriptor: given id, x and y, the kind tag preserved,
\* neutral styling, and no field beyond the common ones.
FactoryForwardCompatible ==
    /\ (call.fn = "createComponent" /\ ~call.returned)
           => ENABLED CreateComponentCall
    /\ (call.fn = "createComponent" /\ call.returned)
       => LET type == call.args[1]
              c == call.result
          IN  /\ c.id = call.args[2] /\ c.x = call.args[3] /\ c.y = call.args[4]
              /\ c.type = type
              /\ BaseFields \subseteq DOMAIN c
              /\ type \in {"horizontalslider", "verticalslider", "knob", "button",
                           "toggle", "label", "textbox", "meter", "combobox"}
                    => DOMAIN c # BaseFields
              /\ type \notin {"horizontalslider", "verticalslider", "knob", "button",
                              "toggle", "label", "textbox", "meter", "combobox"}
                    => /\ DOMAIN c = BaseFields
                       /\ c.text = type
                       /\ c.color = "#CCCCCC" /\ c.textColor = "#000000"
                       /\ c.fontSize = 12
                       /\ c.width = 80 /\ c.height = 30

\* createComponent('widget', id 2, 25, 40) has returned a descriptor tagged
\* 'widget' that carries the common fields only.
FactoryForwardCompatibleWitness ==
    /\ call.fn = "createComponent" /\ call.returned
    /\ call.args = <<"widget", 2, 25, 40>>
    /\ call.result.type = "widget" /\ call.result.x = 25
    /\ DOMAIN call.result = BaseFields

\* C18. Default-size agreement: for every kind tag, known or not,
\* getDefaultSize(kind) returns exactly the width and the height of the
\* descriptor createComponent(kind, id, x, y) constructs, both strictly
\* positive.
DefaultSizeAgrees ==
    (call.fn = "getDefaultSize" /\ call.returned)
    => /\ call.result.width > 0 /\ call.result.height > 0
       /\ \A id \in Ids, x \in FactoryXs, y \in FactoryYs :
              LET c == CreateComponent(call.args[1], id, x, y)
              IN  /\ call.result.width = c.width
                  /\ call.result.height = c.height

\* getDefaultSize('meter') has returned 20 x 100, a size that is not square
\* and not the generic one.
DefaultSizeAgreesWitness ==
    /\ call.fn = "getDefaultSize" /\ call.returned
    /\ call.args = <<"meter">>
    /\ call.result = [width |-> 20, height |-> 100]

(***************************************************************************)
(* Properties of the session, continued (under Spec).                      *)
(***************************************************************************)

\* C19. Id uniqueness: no two live descriptors share an id, and an add
\* (toolbox click, or drop with a kind tag) never reuses the id of a live
\* descriptor: it grows the session by exactly one descriptor and leaves
\* every descriptor already present in place with all fields unchanged.
AddNeverReusesLiveId ==
    [][\A type \in ToolboxTypes, id \in Ids :
           (\/ \E rx \in RandomValues, ry \in RandomValues :
                   OnComponentSelected(type, id, rx, ry)
            \/ \E d \in DropPoints : OnCanvasDrop(type, id, d[1], d[2]))
           => /\ \A i \in DOMAIN components : components[i].id # id
              /\ Len(components') = Len(components) + 1
              /\ \A i \in DOMAIN components : components'[i] = components[i]
              /\ \A i, j \in DOMAIN components' :
                     components'[i].id = components'[j].id => i = j
      ]_vars

\* C28. Move frame condition: a Move received while no drag is in progress
\* changes no descriptor, no selection and no drag state; a Move during a drag
\* changes only the x and y of the selected descriptor: its other fields,
\* every other descriptor, the order, the selected id, the recorded offset,
\* the drag flag and the canvas configuration stay as they were.
MoveFrame ==
    [][\A dx \in PointerXs, dy \in PointerYs :
         OnCanvasMouseMove(dx, dy) =>
             /\ UNCHANGED <<selectedComponent, isDragging, dragOffset,
                            guiProperties>>
             /\ ~isDragging => UNCHANGED components
             /\ Len(components') = Len(components)
             /\ \A i \in DOMAIN components :
                    /\ components[i].id # selectedComponent
                          => components'[i] = components[i]
                    /\ DOMAIN components'[i] = DOMAIN components[i]
                    /\ \A f \in DOMAIN components[i] \ {"x", "y"} :
                           components'[i][f] = components[i][f]
      ]_vars

\* A Move during a drag has taken a descriptor of an unknown kind to the far
\* edge of the canvas; it still has its default size and its tag.
MoveFrameWitness ==
    /\ lastEvent = "mousemove" /\ isDragging /\ SelectionLive
    /\ Descriptor(selectedComponent).type = "widget"
    /\ Descriptor(selectedComponent).width = 80
    /\ Descriptor(selectedComponent).x = guiProperties.width - 80

\* C29. Guarded clear: a clear-canvas command declined at the confirmation
\* leaves the descriptors, their order, the selected id and the canvas
\* configuration as they were; on an empty session the command asks nothing
\* and changes nothing.
DeclinedClearKeepsSession ==
    [][\A confirmed \in BOOLEAN :
         (ClearCanvas(confirmed) /\ (~confirmed \/ components = << >>))
         => /\ UNCHANGED <<components, selectedComponent, guiProperties,
                           isDragging, dragOffset>>
            /\ components = << >> => lastEvent' = "clearNothing"
      ]_vars

\* A clear was declined on a session of two descriptors, one of them
\* selected.
DeclinedClearKeepsSessionWitness ==
    /\ lastEvent = "clearDeclined"
    /\ Len(components) = 2 /\ SelectionLive

(***************************************************************************)
(* Properties of the renderer, under CallSpec.                             *)
(***************************************************************************)

\* C25. Invisible descriptors draw nothing: render(surface, descriptor,
\* isSelected) with descriptor.visible = false issues no call on the surface,
\* for every kind and for both values of isSelected.
InvisibleDrawsNothing ==
    (call.fn = "render" /\ call.returned /\ ~call.args[1].visible)
    => call.result = << >>

\* A hidden, selected combo box has been rendered.
InvisibleDrawsNothingWitness ==
    /\ call.fn = "render" /\ call.returned
    /\ ~call.args[1].visible /\ call.args[2]
    /\ call.args[1].type = "combobox"
    /\ Len(call.result) = 0

\* The context's methods that put something on the surface.
DrawingOps == {"fillRect", "strokeRect", "fill", "stroke", "fillText"}

\* C26. Selection decoration is drawn last: when render is called with
\* isSelected = true on a visible descriptor, the outline and the four handles
\* are drawn, and no other drawing call for that descriptor is issued after
\* them.
SelectionDrawnLast ==
    (call.fn = "render" /\ call.returned
        /\ call.args[1].visible /\ call.args[2])
    => /\ \E i \in DOMAIN call.result : call.result[i].by = "renderSelection"
       /\ \A i, j \in DOMAIN call.result :
              (call.result[i].by = "renderSelection" /\ i < j)
              => \/ call.result[j].by = "renderSelection"
                 \/ call.result[j].op \notin DrawingOps

\* C27. Knob default scenario: a Knob created by the factory has range [0,1]
\* and value 0.5, and the normalized value the renderer draws its pointer at
\* is exactly 0.5.
KnobDefaultIsHalf ==
    (call.fn = "render" /\ call.returned
        /\ call.args[1].type = "knob" /\ call.args[1].visible)
    => /\ call.args[1].minValue = <<0, 1>>
       /\ call.args[1].maxValue = <<1, 1>>
       /\ call.args[1].defaultValue = <<1, 2>>
       /\ \E i \in DOMAIN call.result :
              /\ call.result[i].op = "lineTo"
              /\ call.result[i].by = "renderKnob"
              /\ call.result[i].norm = [k |-> "finite", n |-> 1, d |-> 2]

\* A visible knob has been rendered, its pointer included.
KnobDefaultIsHalfWitness ==
    /\ call.fn = "render" /\ call.returned
    /\ call.args[1].type = "knob" /\ call.args[1].visible
    /\ Len(call.result) > 8

(***************************************************************************)
(* Properties of createComponentOnCanvas, under CallSpec.                  *)
(***************************************************************************)

\* C24. Network notification failure never affects local state: when the
\* POST to /api/Component/Create issued on component creation fails, the
\* failure is only logged; the created element stays on the canvas where it
\* was appended, it is the value that was returned, and nothing is rolled
\* back.
NotificationFailureIsLocal ==
    (call.fn = "createComponentOnCanvas" /\ call.returned
        /\ call.result.requests # << >>
        /\ call.result.requests[1].state = "rejected")
    => LET element == [tag |-> "div", className |-> "knob-icon",
                       position |-> "absolute", left |-> call.args[2],
                       top |-> call.args[3], title |-> "Knob"]
       IN  /\ ~call.result.threw
           /\ call.result.value = <<element>>
           /\ call.result.canvas = call.args[4] \o <<element>>
           /\ Len(call.result.console) = 1
           /\ Len(call.result.requests) = 1

\* The POST for a knob appended to a canvas that already had a child was
\* rejected, and the failure logged.
NotificationFailureIsLocalWitness ==
    /\ call.fn = "createComponentOnCanvas" /\ call.returned
    /\ call.args[1] = "knob" /\ Len(call.args[4]) = 1
    /\ call.result.requests[1].state = "rejected"
    /\ Len(call.result.canvas) = 2
    /\ call.result.console # << >>

\* C30. Creation notification for every kind: for every type tag passed to
\* createComponentOnCanvas, not only 'knob', the call completes without
\* raising, appends one element to the canvas, and issues exactly one POST to
\* /api/Component/Create whose body carries that type, x and y.
NotificationForEveryKind ==
    (call.fn = "createComponentOnCanvas" /\ call.returned)
    => /\ ~call.result.threw
       /\ Len(call.result.canvas) = Len(call.args[4]) + 1
       /\ Len(call.result.requests) = 1
       /\ call.result.requests[1].method = "POST"
       /\ call.result.requests[1].url =
              "https://localhost:7296/api/Component/Create"
       /\ call.result.requests[1].body =
              [type |-> call.args[1], x |-> call.args[2], y |-> call.args[3]]

(***************************************************************************)
(* Properties of the exports, under ExportSpec.                            *)
(***************************************************************************)

ExportSeesInsertionOrder ==
    [][/\ \A type \in ToolboxTypes, id \in Ids :
              (\/ \E rx \in RandomValues, ry \in RandomValues :
                      OnComponentSelected(type, id, rx, ry)
               \/ \E d \in DropPoints : OnCanvasDrop(type, id, d[1], d[2]))
              => /\ components' # << >>
                 /\ components'[Len(components')].id = id
                 /\ \A i \in DOMAIN components :
                        /\ i \in DOMAIN components'
                        /\ components'[i].id = components[i].id
       /\ \A i, j \in DOMAIN components' :
              (i < j /\ components'[i].id \in {components[k].id : k \in DOMAIN components}
                     /\ components'[j].id \in {components[k].id : k \in DOMAIN components})
              => \E k, l \in DOMAIN components :
                     /\ k < l
                     /\ components[k].id = components'[i].id
                     /\ components[l].id = components'[j].id
       /\ (UpdateExportOutput("json") /\ "FileManager" \in window)
              => /\ Len(exportOutput') = Len(components) + 1
                 /\ \A i \in DOMAIN components :
                        exportOutput'[i + 1].component[1] = <<"id", components[i].id>>
      ]_vars

\* C31. Dragging implies a live target: in every reachable state in which
\* the dragging flag is set, the selected id is not null and names a
\* descriptor of the session, also after a delete, a clear or a new project
\* handled between a press and its release.
DraggingHasLiveTarget ==
    isDragging => (selectedComponent # NullId /\ SelectionLive)

\* C33. Resize keeps descriptors on canvas: after an accepted canvas resize
\* (width >= 200, height >= 150), every descriptor that lay fully inside the
\* old canvas still lies fully inside the new canvas: x + width <= the new
\* canvasWidth and y + height <= the new canvasHeight.
ResizeKeepsOnCanvas ==
    [][lastEvent' = "resize"
       => \A i \in DOMAIN components :
              OnCanvas(components[i])
              => /\ i \in DOMAIN components'
                 /\ components'[i].x + components'[i].width <= guiProperties'.width
                 /\ components'[i].y + components'[i].height <= guiProperties'.height
      ]_vars

\* C32. Drag target stability: a Move repositions no descriptor other than
\* the one on which the press of the drag in progress landed, whatever
\* events (delete, toolbox add with its auto-select, clear, new project)
\* are handled between that press and its release.
DragTargetStable ==
    [][lastEvent' = "mousemove"
       => \A i \in DOMAIN components :
              (i \in DOMAIN components' /\ components'[i] # components[i])
              => components[i].id = gesture.target
      ]_vars

\* C34. A completed drag gesture keeps its descriptor selected: after a
\* press on the selected descriptor, any number of moves, the release, and
\* then the click the canvas receives at the release point, the dragged
\* descriptor is still the selected id, also when a move was clamped at a
\* canvas edge or left the descriptor overlapping another one.
DragKeepsSelection ==
    [][\A dx \in GestureXs :
           (/\ gesture.phase = "released"
            /\ gesture.pointer = <<dx, GestureY>>
            /\ OnCanvasClick(dx, GestureY))
           => selectedComponent' = gesture.target
      ]_vars

\* C35. The DOM selection manager keeps a single highlight: after
\* selectComponent(el, container) with a non-null el inside container, el is
\* the only element in container carrying the highlight marker; after
\* deselectAll(container) no element in container carries it;
\* selectComponent with a null el changes nothing; whatever calls came
\* before.
SingleHighlight ==
    [][/\ (/\ call'.fn = "selectComponent"
           /\ call'.args[1] \in ContainerElements
           /\ call'.args[2] = "canvas")
          => {e \in ContainerElements : e \in call'.result.highlight}
                 = {call'.args[1]}
       /\ (call'.fn = "deselectAll" /\ call'.args[1] = "canvas")
          => \A e \in ContainerElements : e \notin call'.result.highlight
       /\ (call'.fn = "selectComponent" /\ call'.args[1] = NullElement)
          => call'.result = call.result
      ]_vars

\* selectComponent has moved the highlight from one element of the container
\* to another, next to a highlighted element outside the container.
SingleHighlightWitness ==
    /\ call.fn = "selectComponent"
    /\ call.args = <<"knob2", "canvas">>
    /\ call.result.highlight = {"knob2", "toolbox"}
    /\ call.result.focus = "knob2"

\* C36. Throttle: the first call of the wrapper invokes func at once; a call
\* arriving while the limit timer is pending is dropped, and func is not
\* invoked for it later either (the timer firing invokes nothing); the first
\* call after the timer has fired invokes func again; so every invocation
\* of func opens a limit window, and func runs at most once per window.
ThrottleOncePerWindow ==
    [][(call.fn = "throttle" /\ call.returned)
       => LET w == call.result
              after == call'.result
          IN  /\ Len(after.calls) = Len(w.calls) + 1
                 => LET arg == after.calls[Len(after.calls)]
                    IN  /\ w.timers = 0 => after.invoked = Append(w.invoked, arg)
                        /\ w.timers > 0 => after.invoked = w.invoked
              /\ after.timers < w.timers => after.invoked = w.invoked
              /\ after.invoked # w.invoked => (w.timers = 0 /\ after.timers = 1)
              /\ after.timers <= 1
      ]_vars

\* A call was invoked, the next one dropped while the timer was pending,
\* and, the timer having fired, a third one invoked.
ThrottleOncePerWindowWitness ==
    /\ call.fn = "throttle" /\ call.returned
    /\ call.result.calls = <<"a", "b", "b">>
    /\ call.result.invoked = <<"a", "b">>

\* C37. Debounce: with immediate unset, a call of the wrapper invokes
\* nothing, at most one timer is pending, and the timer that expires (that
\* of the last call of the burst) invokes func once with the last call's
\* arguments; after the last call that invocation is eventually made.  With
\* immediate set, func is invoked by a call that finds no timer pending (the
\* first of a burst), by no other call, and by no timer.
DebounceOncePerBurst ==
    /\ [][(call.fn = "debounce" /\ call.returned)
          => LET w == call.result
                 after == call'.result
                 immediate == call.args[2]
             IN  /\ Cardinality(after.timers) <= 1
                 /\ Len(after.calls) = Len(w.calls) + 1
                    => LET arg == after.calls[Len(after.calls)]
                       IN  IF immediate /\ w.timers = {}
                           THEN after.invoked = Append(w.invoked, arg)
                           ELSE after.invoked = w.invoked
                 /\ (Len(after.calls) = Len(w.calls) /\ after # w)
                    => /\ after.timers = {}
                       /\ IF immediate
                          THEN after.invoked = w.invoked
                          ELSE after.invoked
                                   = Append(w.invoked, w.calls[Len(w.calls)])
         ]_vars
    /\ (/\ call.fn = "debounce" /\ call.returned /\ ~call.args[2]
        /\ call.result.calls # << >>)
       ~> (/\ call.fn = "debounce" /\ call.returned
           /\ call.result.timers = {}
           /\ call.result.invoked # << >>
           /\ call.result.invoked[Len(call.result.invoked)]
                  = call.result.calls[Len(call.result.calls)])

\* With immediate unset, a burst of two calls has ended in one invocation,
\* with the arguments of the second.
DebounceOncePerBurstWitness ==
    /\ call.fn = "debounce" /\ call.returned /\ ~call.args[2]
    /\ call.result.calls = <<"a", "b">>
    /\ call.result.invoked = <<"b">>
    /\ call.result.timers = {}

====
